---- MODULE Spec2Model ----
(***************************************************************************)
(* Model of the lockdown enforcement shell in src/src/main.rs:             *)
(* the low-level keyboard hook callback, the window lifecycle guard, the   *)
(* emergency-exit shortcut, the deep-link localizer and handler, the       *)
(* commands exposed to the page, and the injected content script.          *)
(*                                                                         *)
(* Strings are sequences of one-character strings.  An optional value is   *)
(* a record [some |-> BOOLEAN, val |-> ...].                               *)
(***************************************************************************)
EXTENDS Integers, Sequences, FiniteSets, TLC

VARIABLES
    pc,               \* position of the main thread in main()
    build,            \* cfg!() facts of the build: debug_assertions, target_os
    config,           \* LockdownConfig as loaded (immutable after load)
    base_url,         \* the base origin selected in main()
    enable_emergency_exit, \* the merged flag computed in main()
    hotkeyRegistered, \* the Ctrl+Alt+Shift+Q shortcut is registered
    current,          \* deep_link().get_current() of this launch
    windows,          \* labels of the existing webview windows
    navTarget,        \* the last URL handed to the webview of "main"
    scriptAttached,   \* window.eval(init_script) has run
    urlHandler,       \* the on_open_url callback is registered
    hookPc,           \* positions of the hook threads, in spawning order
    HOOK_ACTIVE,      \* static AtomicBool
    KEYBOARD_HOOK,    \* static mut Option<HHOOK>
    osHooks,          \* handles of the keyboard hooks the OS has installed
    unhookCalls,      \* handles passed to UnhookWindowsHookEx, in order
    installCalls,     \* calls of install_keyboard_hook made
    pageContent,      \* the content of the current document has run
    pageListeners,    \* init_script's listeners in the current document
    nEvents,          \* events delivered so far (bounded)
    closeRequests,    \* CloseRequested events delivered
    focusLost,        \* Focused(false) events delivered
    refocusRequests,  \* set_focus() calls made, as a sequence of window labels
    navCount,         \* navigations requested by the on_open_url callback
    last,             \* the last event handled and what the handler did
    exitCause,        \* what terminated the process ("none" while alive)
    exitCode,         \* exit status (-1 while alive)
    arg,              \* input of the function under test (function specs)
    res               \* its result (function specs)

vars == <<pc, build, config, base_url, enable_emergency_exit, hotkeyRegistered,
          current, windows, navTarget, scriptAttached, urlHandler, hookPc,
          HOOK_ACTIVE, KEYBOARD_HOOK, osHooks, unhookCalls, installCalls,
          pageContent, pageListeners, nEvents, closeRequests,
          focusLost, refocusRequests, navCount, last, exitCause, exitCode,
          arg, res>>

appVars == <<pc, build, config, base_url, enable_emergency_exit,
             hotkeyRegistered, current, windows, navTarget, scriptAttached,
             urlHandler, hookPc, HOOK_ACTIVE, KEYBOARD_HOOK, osHooks,
             unhookCalls, installCalls, pageContent, pageListeners, nEvents,
             closeRequests, focusLost, refocusRequests, navCount, last,
             exitCause, exitCode>>

(***************************************************************************)
(* Bounds                                                                  *)
(***************************************************************************)
MaxBase == 3      \* longest base origin string tried by the to_local checks
MaxPath == 3      \* longest URI path tried by the to_local checks
MaxEvents == 3    \* events delivered to a running process per behaviour
MaxMonitors == 2  \* most displays the OS enumerates
MaxInstallCalls == 2  \* calls of install_keyboard_hook tried by SpecInstall

(***************************************************************************)
(* Strings and options                                                     *)
(***************************************************************************)
None == [some |-> FALSE, val |-> <<>>]
Some(v) == [some |-> TRUE, val |-> v]

SeqsUpTo(S, n) == UNION {[1..k -> S] : k \in 0..n}

\* str::trim_end_matches(c): drop every trailing c
RECURSIVE trim_end_matches(_, _)
trim_end_matches(s, c) ==
    IF s = <<>> THEN s
    ELSE IF s[Len(s)] = c THEN trim_end_matches(SubSeq(s, 1, Len(s) - 1), c)
    ELSE s

\* str::trim_start_matches(c): drop every leading c
RECURSIVE trim_start_matches(_, _)
trim_start_matches(s, c) ==
    IF s = <<>> THEN s
    ELSE IF s[1] = c THEN trim_start_matches(SubSeq(s, 2, Len(s)), c)
    ELSE s

(***************************************************************************)
(* URI Localizer: to_local(link, base)                                     *)
(* link is the parsed Url: host_str() an option, path() a string, query()  *)
(* an option.                                                              *)
(***************************************************************************)
\* mutant: strips only one trailing slash of the base
to_local_strip_one(link, base) ==
    LET t0 == IF base # <<>> /\ base[Len(base)] = "/"
              THEN SubSeq(base, 1, Len(base) - 1) ELSE base
        t1 == IF link.host.some /\ link.host.val # <<>>
              THEN t0 \o <<"/">> \o trim_start_matches(link.host.val, "/")
              ELSE t0
        path == trim_start_matches(link.path, "/")
        t2 == IF path # <<>> THEN t1 \o <<"/">> \o path ELSE t1
    IN  IF link.query.some THEN t2 \o <<"?">> \o link.query.val ELSE t2

\* mutant: pushes the separator and the path without stripping or testing it
to_local_raw_path(link, base) ==
    LET t0 == trim_end_matches(base, "/")
        t1 == IF link.host.some /\ link.host.val # <<>>
              THEN t0 \o <<"/">> \o trim_start_matches(link.host.val, "/")
              ELSE t0
        t2 == t1 \o <<"/">> \o link.path
    IN  IF link.query.some THEN t2 \o <<"?">> \o link.query.val ELSE t2

to_local(link, base) ==
    LET t0 == trim_end_matches(base, "/")
        t1 == IF link.host.some /\ link.host.val # <<>>
              THEN t0 \o <<"/">> \o trim_start_matches(link.host.val, "/")
              ELSE t0
        path == trim_start_matches(link.path, "/")
        t2 == IF path # <<>> THEN t1 \o <<"/">> \o path ELSE t1
    IN  IF link.query.some THEN t2 \o <<"?">> \o link.query.val ELSE t2


(***************************************************************************)
(* Global Input Guard: keyboard_hook_proc                                  *)
(***************************************************************************)
\* Virtual key codes
VK_TAB == 9
VK_ESCAPE == 27
VK_LWIN == 91
VK_RWIN == 92
VK_SNAPSHOT == 44
VK_F4 == 115
VK_F12 == 123
VK_C == 67
VK_V == 86
VK_P == 80

\* Modifier key flag of KBDLLHOOKSTRUCT
LLKHF_ALTDOWN == 32

WM_KEYDOWN == 256
WM_SYSKEYDOWN == 260

\* x & m # 0 for a single-bit mask m
BitSet(x, m) == (x \div m) % 2 = 1

\* return LRESULT(1) without calling the next hook
Suppress == [ret |-> 1, next |-> <<>>]

\* CallNextHookEx(hook, code, wparam, lparam), whose result is returned;
\* HHOOK::default() is the null handle 0
Forward(hook, code, wparam, lparam, nextRet) ==
    [ret |-> nextRet,
     next |-> <<[hook |-> IF hook.some THEN hook.val ELSE 0,
                 code |-> code, wparam |-> wparam, lparam |-> lparam]>>]

\* mutant: the right Windows key is not on the list
keyboard_hook_proc_no_rwin(code, wparam, lparam, kb, ctrlState, hook, nextRet) ==
    LET vk_code == kb.vkCode
        alt_down == BitSet(kb.flags, LLKHF_ALTDOWN)
        ctrl_down == BitSet(ctrlState, 32768)
        is_key_down == wparam = WM_KEYDOWN \/ wparam = WM_SYSKEYDOWN
    IN  IF code >= 0 /\ is_key_down /\
           (\/ alt_down /\ vk_code = VK_TAB
            \/ alt_down /\ vk_code = VK_ESCAPE
            \/ alt_down /\ vk_code = VK_F4
            \/ vk_code = VK_LWIN
            \/ vk_code = VK_SNAPSHOT
            \/ vk_code = VK_F12
            \/ ctrl_down /\ (vk_code = VK_C \/ vk_code = VK_V \/ vk_code = VK_P))
        THEN Suppress
        ELSE Forward(hook, code, wparam, lparam, nextRet)

\* mutant: without a stored handle the event is answered without calling
\* the next hook
keyboard_hook_proc_drop_unhooked(code, wparam, lparam, kb, ctrlState, hook, nextRet) ==
    LET vk_code == kb.vkCode
        alt_down == BitSet(kb.flags, LLKHF_ALTDOWN)
        ctrl_down == BitSet(ctrlState, 32768)
        is_key_down == wparam = WM_KEYDOWN \/ wparam = WM_SYSKEYDOWN
    IN  IF code >= 0 /\ is_key_down /\
           (\/ alt_down /\ vk_code = VK_TAB
            \/ alt_down /\ vk_code = VK_ESCAPE
            \/ alt_down /\ vk_code = VK_F4
            \/ vk_code = VK_LWIN \/ vk_code = VK_RWIN
            \/ vk_code = VK_SNAPSHOT
            \/ vk_code = VK_F12
            \/ ctrl_down /\ (vk_code = VK_C \/ vk_code = VK_V \/ vk_code = VK_P))
        THEN Suppress
        ELSE IF hook.some THEN Forward(hook, code, wparam, lparam, nextRet)
        ELSE [ret |-> 0, next |-> <<>>]

\* mutant: Q with Ctrl held is on the list
keyboard_hook_proc_block_ctrl_q(code, wparam, lparam, kb, ctrlState, hook, nextRet) ==
    LET vk_code == kb.vkCode
        alt_down == BitSet(kb.flags, LLKHF_ALTDOWN)
        ctrl_down == BitSet(ctrlState, 32768)
        is_key_down == wparam = WM_KEYDOWN \/ wparam = WM_SYSKEYDOWN
    IN  IF code >= 0 /\ is_key_down /\
           (\/ alt_down /\ vk_code = VK_TAB
            \/ alt_down /\ vk_code = VK_ESCAPE
            \/ alt_down /\ vk_code = VK_F4
            \/ vk_code = VK_LWIN \/ vk_code = VK_RWIN
            \/ vk_code = VK_SNAPSHOT
            \/ vk_code = VK_F12
            \/ ctrl_down /\ vk_code = 81
            \/ ctrl_down /\ (vk_code = VK_C \/ vk_code = VK_V \/ vk_code = VK_P))
        THEN Suppress
        ELSE Forward(hook, code, wparam, lparam, nextRet)

\* code, wparam, lparam: the callback's arguments; kb: the KBDLLHOOKSTRUCT
\* at lparam (read only when code >= 0); ctrlState: GetAsyncKeyState(0x11)
\* as u16; hook: the static KEYBOARD_HOOK; nextRet: what the next hook
\* answers.  wparam is a message identifier, below 2^32, which the cast
\* "wparam.0 as u32" leaves as it is.
keyboard_hook_proc(code, wparam, lparam, kb, ctrlState, hook, nextRet) ==
    LET vk_code == kb.vkCode
        alt_down == BitSet(kb.flags, LLKHF_ALTDOWN)
        ctrl_down == BitSet(ctrlState, 32768)
        is_key_down == wparam = WM_KEYDOWN \/ wparam = WM_SYSKEYDOWN
    IN  IF code >= 0 /\ is_key_down /\
           (\/ alt_down /\ vk_code = VK_TAB
            \/ alt_down /\ vk_code = VK_ESCAPE
            \/ alt_down /\ vk_code = VK_F4
            \/ vk_code = VK_LWIN \/ vk_code = VK_RWIN
            \/ vk_code = VK_SNAPSHOT
            \/ vk_code = VK_F12
            \/ ctrl_down /\ (vk_code = VK_C \/ vk_code = VK_V \/ vk_code = VK_P))
        THEN Suppress
        ELSE Forward(hook, code, wparam, lparam, nextRet)


(***************************************************************************)
(* Content-Script Injector: the listeners of init_script                   *)
(***************************************************************************)
\* KeyboardEvent.key of a key-down: a letter key reports its upper-case
\* letter when exactly one of Shift and CapsLock is on, its lower-case
\* letter otherwise; a function key reports its name
DomKey(code, shiftKey, capsLock) ==
    LET upper == shiftKey # capsLock
    IN  CASE code = "KeyI" -> IF upper THEN "I" ELSE "i"
          [] code = "KeyJ" -> IF upper THEN "J" ELSE "j"
          [] code = "KeyU" -> IF upper THEN "U" ELSE "u"
          [] code = "KeyS" -> IF upper THEN "S" ELSE "s"
          [] code = "KeyP" -> IF upper THEN "P" ELSE "p"
          [] code = "KeyA" -> IF upper THEN "A" ELSE "a"
          [] OTHER -> code

\* document.addEventListener('keydown', ...): TRUE when it calls
\* e.preventDefault()
keydown_listener(e) ==
    IF e.key = "F12" THEN TRUE
    ELSE IF e.ctrlKey /\ e.shiftKey /\ e.key = "I" THEN TRUE
    ELSE IF e.ctrlKey /\ e.shiftKey /\ e.key = "J" THEN TRUE
    ELSE IF e.ctrlKey /\ e.key = "u" THEN TRUE
    ELSE IF e.ctrlKey /\ e.key = "s" THEN TRUE
    ELSE IF e.ctrlKey /\ e.key = "p" THEN TRUE
    ELSE FALSE

\* document.addEventListener('selectstart', ...)
selectstart_listener(e) ==
    IF e.tagName = "INPUT" \/ e.tagName = "TEXTAREA" THEN FALSE ELSE TRUE

\* the page's event dispatch through the listeners init_script registered:
\* TRUE when the default action was prevented
init_script(e) ==
    CASE e.type = "contextmenu" -> TRUE
      [] e.type = "keydown" -> keydown_listener(e)
      [] e.type = "selectstart" -> selectstart_listener(e)
      [] e.type = "dragstart" -> TRUE
      [] OTHER -> FALSE


(***************************************************************************)
(* Window Lifecycle Guard: the on_window_event closure                     *)
(***************************************************************************)
\* mutant: the close request is observed but not vetoed
on_window_event_no_veto(window, event) ==
    [prevent_close |-> FALSE,
     set_focus |-> IF event = "FocusedFalse" THEN <<window>> ELSE <<>>]

\* mutant: the focus test is inverted
on_window_event_focus_gained(window, event) ==
    [prevent_close |-> event = "CloseRequested",
     set_focus |-> IF event = "FocusedTrue" THEN <<window>> ELSE <<>>]

\* what the closure does with one event of one window: whether it calls
\* api.prevent_close(), and the windows it calls set_focus() on
on_window_event(window, event) ==
    [prevent_close |-> event = "CloseRequested",
     set_focus |-> IF event = "FocusedFalse" THEN <<window>> ELSE <<>>]

(***************************************************************************)
(* Escape Valve                                                            *)
(***************************************************************************)
\* config.debug_settings.enable_emergency_exit || cfg!(debug_assertions)
merged_emergency_exit(flag, debug_assertions) == flag \/ debug_assertions

\* mutant: the shortcut is registered whatever the flag says
register_shortcut_always(enabled) == TRUE

\* setup registers the shortcut only inside "if enable_emergency_exit"
register_shortcut(enabled) == enabled

\* mutant: the handler does not look at event.state
shortcut_handler_any_state(state) == TRUE

\* the on_shortcut closure: TRUE when it calls app_handle_exit.exit(0)
shortcut_handler(state) == state = "Pressed"

(***************************************************************************)
(* Monitor Census                                                          *)
(***************************************************************************)
\* windows_security::get_monitor_count: count starts at 0 and
\* monitor_enum_proc adds one per display the OS enumerates
RECURSIVE enum_display_monitors(_, _)
enum_display_monitors(count, displays) ==
    IF displays = 0 THEN count
    ELSE enum_display_monitors(count + 1, displays - 1)

\* mutant: the count starts at 1
windows_get_monitor_count_from_one(displays) ==
    enum_display_monitors(1, displays)

windows_get_monitor_count(displays) == enum_display_monitors(0, displays)

\* the get_monitor_count command
get_monitor_count(windows_os, displays) ==
    IF windows_os THEN windows_get_monitor_count(displays) ELSE 1

\* the check_multiple_monitors command
check_multiple_monitors(windows_os, displays) ==
    IF windows_os THEN windows_get_monitor_count(displays) > 1 ELSE FALSE

(***************************************************************************)
(* Deep links                                                              *)
(***************************************************************************)
\* Url::parse of an absolute URL on an http(s) origin.  The first character
\* of the string stands for the scheme and authority; the serialization
\* has path "/" where the input has none.
UrlParse(s) ==
    IF s # <<>> /\ (Len(s) = 1 \/ s[2] = "?")
    THEN <<s[1], "/">> \o SubSeq(s, 2, Len(s))
    ELSE s

\* the entry URL of setup: the first URI of get_current(), localized, or the
\* base origin
entry_url(cur, base) ==
    IF cur.some /\ cur.val # <<>>
    THEN UrlParse(to_local(cur.val[1], base))
    ELSE UrlParse(base)

\* format!("window.location.replace('{}')", target)
FormatReplace(target) ==
    <<"window.location.replace(", "'">> \o target \o <<"'", ")">>

\* the on_open_url closure: the script it hands to win.eval, if any
on_open_url(urls, wins, base) ==
    IF urls # <<>> /\ "main" \in wins
    THEN Some(FormatReplace(to_local(urls[1], base)))
    ELSE None

\* The webview evaluates the script: statements of the shape
\* window.location.replace('...') separated by ";".  A string literal runs
\* from its opening quote to the next quote; a script that does not parse
\* is a syntax error and nothing of it runs.  The result is the URL of the
\* last location.replace call, which is where the window navigates.
RECURSIVE JsRun(_, _)
JsRun(s, url) ==
    IF s = <<>> THEN url
    ELSE IF Len(s) >= 4 /\ s[1] = "window.location.replace(" /\ s[2] = "'"
            /\ \E i \in 3..(Len(s) - 1) : s[i] = "'"
    THEN LET close == CHOOSE i \in 3..(Len(s) - 1) :
                          /\ s[i] = "'"
                          /\ \A j \in 3..(i - 1) : s[j] # "'"
             lit == SubSeq(s, 3, close - 1)
             rest == SubSeq(s, close + 2, Len(s))
         IN  IF s[close + 1] # ")" THEN None
             ELSE IF rest = <<>> THEN Some(lit)
             ELSE IF rest[1] = ";" THEN JsRun(Tail(rest), Some(lit))
             ELSE None
    ELSE None

JsEval(script) == JsRun(script, None)

(***************************************************************************)
(* The idle values of the application state, used by the function specs    *)
(***************************************************************************)
NoEvent == [kind |-> "none"]

AppIdle ==
    /\ pc = "load_config"
    /\ build = [debug_assertions |-> FALSE, windows_os |-> TRUE]
    /\ config = [valid |-> TRUE, base_url |-> <<"d">>,
                 production_url |-> <<"o", "/">>,
                 enable_emergency_exit |-> FALSE]
    /\ base_url = <<>>
    /\ enable_emergency_exit = FALSE
    /\ hotkeyRegistered = FALSE
    /\ current = None
    /\ windows = {}
    /\ navTarget = <<>>
    /\ scriptAttached = FALSE
    /\ urlHandler = FALSE
    /\ hookPc = <<>>
    /\ HOOK_ACTIVE = FALSE
    /\ KEYBOARD_HOOK = None
    /\ osHooks = {}
    /\ unhookCalls = <<>>
    /\ installCalls = 0
    /\ pageContent = FALSE
    /\ pageListeners = "none"
    /\ nEvents = 0
    /\ closeRequests = 0
    /\ focusLost = 0
    /\ refocusRequests = <<>>
    /\ navCount = 0
    /\ last = NoEvent
    /\ exitCause = "none"
    /\ exitCode = -1

NoRes == [done |-> FALSE]

(***************************************************************************)
(* Spec: the process from main() to its exit                               *)
(***************************************************************************)
\* understandly_lockdown://h?q, understandly_lockdown://h/p, a link whose
\* query holds a single quote, and a link whose query closes the literal and
\* the call and goes on with a call of its own.  Url keeps these characters
\* as they are in the query of a URI of a non-special scheme.
LinkQuiz == [host |-> Some(<<"h">>), path |-> <<>>, query |-> Some(<<"q">>)]
LinkResults == [host |-> Some(<<"h">>), path |-> <<"/", "p">>, query |-> None]
LinkQuote == [host |-> Some(<<"h">>), path |-> <<>>, query |-> Some(<<"'">>)]
LinkInject ==
    [host |-> Some(<<"h">>), path |-> <<>>,
     query |-> Some(<<"'", ")", ";", "window.location.replace(", "'", "e">>)]

\* get_current() at launch: nothing, or the URIs the process was launched with
ColdStarts == {None, Some(<<LinkQuiz>>), Some(<<LinkResults, LinkQuiz>>)}

\* the URI lists of the runtime deliveries
Deliveries == {<<>>, <<LinkQuiz>>, <<LinkResults, LinkQuiz>>, <<LinkQuote>>,
               <<LinkInject>>}

Configs ==
    {c \in [valid : BOOLEAN, base_url : {<<"d">>},
            production_url : {<<"o", "/">>}, enable_emergency_exit : BOOLEAN] :
        ~c.valid => ~c.enable_emergency_exit}

Init ==
    /\ pc = "load_config"
    /\ build \in [debug_assertions : BOOLEAN, windows_os : BOOLEAN]
    /\ config \in Configs
    /\ current \in ColdStarts
    /\ base_url = <<>>
    /\ enable_emergency_exit = FALSE
    /\ hotkeyRegistered = FALSE
    /\ windows = {}
    /\ navTarget = <<>>
    /\ scriptAttached = FALSE
    /\ urlHandler = FALSE
    /\ hookPc = <<>>
    /\ HOOK_ACTIVE = FALSE
    /\ KEYBOARD_HOOK = None
    /\ osHooks = {}
    /\ unhookCalls = <<>>
    /\ installCalls = 0
    /\ pageContent = FALSE
    /\ pageListeners = "none"
    /\ nEvents = 0
    /\ closeRequests = 0
    /\ focusLost = 0
    /\ refocusRequests = <<>>
    /\ navCount = 0
    /\ last = NoEvent
    /\ exitCause = "none"
    /\ exitCode = -1
    /\ arg = [fn |-> "main"]
    /\ res = NoRes

fnVars == <<arg, res>>
policyVars == <<build, config, current>>
hookStatics == <<HOOK_ACTIVE, KEYBOARD_HOOK, unhookCalls, installCalls>>
hookVars == <<hookPc, osHooks, hookStatics>>
pageVars == <<pageContent, pageListeners>>
counterVars == <<closeRequests, focusLost, refocusRequests, navCount>>
\* what the end of the process changes
procVars == <<exitCause, exitCode, windows, hookPc, osHooks>>
\* the main thread and what setup leaves behind
mainVars == <<pc, base_url, enable_emergency_exit, hotkeyRegistered,
              navTarget, scriptAttached, urlHandler>>

\* the handle SetWindowsHookExW returns to the t-th hook thread
Handle(t) == 6 + t

\* a hook thread that has not ended
ThreadAlive(p) == p \notin {"failed", "done", "killed"}

\* The process ends: every thread stops where it is, the windows go and the
\* OS drops the hooks of the process.
ExitProcess(cause, code) ==
    /\ exitCause' = cause
    /\ exitCode' = code
    /\ windows' = {}
    /\ hookPc' = [t \in 1..Len(hookPc) |->
                     IF ThreadAlive(hookPc[t]) THEN "killed" ELSE hookPc[t]]
    /\ osHooks' = {}

\* main: LockdownConfig::load() panics on an invalid file; otherwise the base
\* origin and the merged emergency-exit flag are computed
MainLoadConfig ==
    /\ pc = "load_config"
    /\ IF config.valid
       THEN /\ pc' = "install_hook"
            /\ base_url' = IF build.debug_assertions
                           THEN config.base_url ELSE config.production_url
            /\ enable_emergency_exit' =
                   merged_emergency_exit(config.enable_emergency_exit,
                                         build.debug_assertions)
            /\ UNCHANGED procVars
       ELSE /\ pc' = "aborted"
            /\ ExitProcess("panic", 101)
            /\ UNCHANGED <<base_url, enable_emergency_exit>>
    /\ UNCHANGED <<policyVars, hotkeyRegistered, navTarget, scriptAttached,
                   urlHandler, hookStatics, pageVars, nEvents, counterVars,
                   last, fnVars>>

\* install_keyboard_hook(): return if HOOK_ACTIVE is set, else spawn the
\* hook thread
install_keyboard_hook ==
    /\ installCalls' = installCalls + 1
    /\ hookPc' = IF HOOK_ACTIVE THEN hookPc ELSE Append(hookPc, "spawned")

\* main: the call of install_keyboard_hook() in a Windows build
MainInstallHook ==
    /\ pc = "install_hook"
    /\ pc' = "setup_shortcut"
    /\ IF build.windows_os
       THEN install_keyboard_hook
       ELSE UNCHANGED <<installCalls, hookPc>>
    /\ UNCHANGED <<policyVars, base_url, enable_emergency_exit,
                   hotkeyRegistered, windows, navTarget, scriptAttached,
                   urlHandler, HOOK_ACTIVE, KEYBOARD_HOOK, unhookCalls,
                   osHooks, pageVars, nEvents, counterVars, last, exitCause,
                   exitCode, fnVars>>

\* setup: register the emergency exit shortcut if enabled
SetupShortcut ==
    /\ pc = "setup_shortcut"
    /\ exitCause = "none"
    /\ pc' = "setup_window"
    /\ hotkeyRegistered' = register_shortcut(enable_emergency_exit)
    /\ UNCHANGED <<policyVars, base_url, enable_emergency_exit, windows,
                   navTarget, scriptAttached, urlHandler, hookVars, pageVars,
                   nEvents, counterVars, last, exitCause, exitCode, fnVars>>

\* mutant: a failed build of the window is ignored and setup goes on
SetupWindow_ignore_failure ==
    /\ pc = "setup_window"
    /\ exitCause = "none"
    /\ \E built \in BOOLEAN :
         /\ pc' = "setup_script"
         /\ windows' = IF built THEN {"main"} ELSE {}
         /\ navTarget' = IF built THEN entry_url(current, base_url)
                         ELSE navTarget
         /\ UNCHANGED <<exitCause, exitCode, hookPc, osHooks>>
    /\ UNCHANGED <<policyVars, base_url, enable_emergency_exit,
                   hotkeyRegistered, scriptAttached, urlHandler, hookStatics,
                   pageVars, nEvents, counterVars, last, fnVars>>

\* setup: compute the entry URL and build the "main" window, whose webview
\* starts to load the entry URL; a failed build makes setup return the error
\* and run() panic
SetupWindow ==
    /\ pc = "setup_window"
    /\ exitCause = "none"
    /\ \E built \in BOOLEAN :
         IF built
         THEN /\ pc' = "setup_script"
              /\ windows' = {"main"}
              /\ navTarget' = entry_url(current, base_url)
              /\ UNCHANGED <<exitCause, exitCode, hookPc, osHooks>>
         ELSE /\ pc' = "aborted"
              /\ ExitProcess("panic", 101)
              /\ UNCHANGED navTarget
    /\ UNCHANGED <<policyVars, base_url, enable_emergency_exit,
                   hotkeyRegistered, scriptAttached, urlHandler, hookStatics,
                   pageVars, nEvents, counterVars, last, fnVars>>

\* setup: window.eval(init_script) runs the script once, in the document the
\* webview holds at that moment
SetupScript ==
    /\ pc = "setup_script"
    /\ exitCause = "none"
    /\ pc' = "setup_deeplink"
    /\ scriptAttached' = TRUE
    /\ pageListeners' = IF pageContent THEN "late" ELSE "first"
    /\ UNCHANGED <<policyVars, base_url, enable_emergency_exit,
                   hotkeyRegistered, windows, navTarget, urlHandler, hookVars,
                   pageContent, nEvents, counterVars, last, exitCause,
                   exitCode, fnVars>>

\* setup: dl.on_open_url(...), then setup returns and the event loop runs
SetupDeepLink ==
    /\ pc = "setup_deeplink"
    /\ exitCause = "none"
    /\ pc' = "running"
    /\ urlHandler' = TRUE
    /\ UNCHANGED <<policyVars, base_url, enable_emergency_exit,
                   hotkeyRegistered, windows, navTarget, scriptAttached,
                   hookVars, pageVars, nEvents, counterVars, last, exitCause,
                   exitCode, fnVars>>

\* the webview: the document of the window has loaded and its own scripts run
PageLoad ==
    /\ exitCause = "none"
    /\ "main" \in windows
    /\ ~pageContent
    /\ pageContent' = TRUE
    /\ UNCHANGED <<mainVars, policyVars, procVars, hookStatics, pageListeners,
                   nEvents, counterVars, last, fnVars>>

\* what a step of a hook thread leaves alone
HookThreadFrame ==
    UNCHANGED <<mainVars, policyVars, windows, exitCause, exitCode,
                installCalls, pageVars, nEvents, counterVars, last, fnVars>>

\* mutant: a failed installation ends the process
HookThreadInstall_abort(t) ==
    /\ exitCause = "none"
    /\ t \in 1..Len(hookPc) /\ hookPc[t] = "spawned"
    /\ \E ok \in BOOLEAN :
         IF ok
         THEN /\ osHooks' = osHooks \cup {Handle(t)}
              /\ hookPc' = [hookPc EXCEPT ![t] = "installed"]
              /\ UNCHANGED <<pc, exitCause, exitCode, windows>>
         ELSE /\ hookPc' = [hookPc EXCEPT ![t] = "failed"]
              /\ pc' = "aborted"
              /\ exitCause' = "panic"
              /\ exitCode' = 101
              /\ windows' = {}
              /\ osHooks' = {}
    /\ UNCHANGED <<HOOK_ACTIVE, KEYBOARD_HOOK, unhookCalls>>
    /\ UNCHANGED <<base_url, enable_emergency_exit, hotkeyRegistered,
                   navTarget, scriptAttached, urlHandler, policyVars,
                   installCalls, pageVars, nEvents, counterVars, last,
                   fnVars>>

\* hook thread t: SetWindowsHookExW(WH_KEYBOARD_LL, ...) installs the hook
\* and returns its handle, or fails and the thread ends
HookThreadInstall(t) ==
    /\ exitCause = "none"
    /\ t \in 1..Len(hookPc) /\ hookPc[t] = "spawned"
    /\ \E ok \in BOOLEAN :
         IF ok
         THEN /\ osHooks' = osHooks \cup {Handle(t)}
              /\ hookPc' = [hookPc EXCEPT ![t] = "installed"]
         ELSE /\ hookPc' = [hookPc EXCEPT ![t] = "failed"]
              /\ UNCHANGED osHooks
    /\ UNCHANGED <<HOOK_ACTIVE, KEYBOARD_HOOK, unhookCalls>>
    /\ HookThreadFrame

\* hook thread t: KEYBOARD_HOOK = Some(h)
HookThreadStore(t) ==
    /\ exitCause = "none"
    /\ t \in 1..Len(hookPc) /\ hookPc[t] = "installed"
    /\ KEYBOARD_HOOK' = Some(Handle(t))
    /\ hookPc' = [hookPc EXCEPT ![t] = "stored"]
    /\ UNCHANGED <<HOOK_ACTIVE, osHooks, unhookCalls>>
    /\ HookThreadFrame

\* hook thread t: HOOK_ACTIVE.store(true), then the message loop
HookThreadActivate(t) ==
    /\ exitCause = "none"
    /\ t \in 1..Len(hookPc) /\ hookPc[t] = "stored"
    /\ HOOK_ACTIVE' = TRUE
    /\ hookPc' = [hookPc EXCEPT ![t] = "loop"]
    /\ UNCHANGED <<KEYBOARD_HOOK, osHooks, unhookCalls>>
    /\ HookThreadFrame

\* hook thread t: GetMessageW returns false (WM_QUIT) and the loop ends
HookThreadQuit(t) ==
    /\ exitCause = "none"
    /\ t \in 1..Len(hookPc) /\ hookPc[t] = "loop"
    /\ hookPc' = [hookPc EXCEPT ![t] = "cleanup"]
    /\ UNCHANGED <<HOOK_ACTIVE, KEYBOARD_HOOK, osHooks, unhookCalls>>
    /\ HookThreadFrame

\* mutant: the thread leaves without the call of UnhookWindowsHookEx
HookThreadUnhook_skip(t) ==
    /\ exitCause = "none"
    /\ t \in 1..Len(hookPc) /\ hookPc[t] = "cleanup"
    /\ hookPc' = [hookPc EXCEPT ![t] = "unhooked"]
    /\ UNCHANGED <<HOOK_ACTIVE, KEYBOARD_HOOK, osHooks, unhookCalls>>
    /\ HookThreadFrame

\* hook thread t: UnhookWindowsHookEx(h)
HookThreadUnhook(t) ==
    /\ exitCause = "none"
    /\ t \in 1..Len(hookPc) /\ hookPc[t] = "cleanup"
    /\ osHooks' = osHooks \ {Handle(t)}
    /\ unhookCalls' = Append(unhookCalls, Handle(t))
    /\ hookPc' = [hookPc EXCEPT ![t] = "unhooked"]
    /\ UNCHANGED <<HOOK_ACTIVE, KEYBOARD_HOOK>>
    /\ HookThreadFrame

\* mutant: the thread ends without the store of false
HookThreadDeactivate_keep(t) ==
    /\ exitCause = "none"
    /\ t \in 1..Len(hookPc) /\ hookPc[t] = "unhooked"
    /\ hookPc' = [hookPc EXCEPT ![t] = "done"]
    /\ UNCHANGED <<HOOK_ACTIVE, KEYBOARD_HOOK, osHooks, unhookCalls>>
    /\ HookThreadFrame

\* hook thread t: HOOK_ACTIVE.store(false), and the thread ends
HookThreadDeactivate(t) ==
    /\ exitCause = "none"
    /\ t \in 1..Len(hookPc) /\ hookPc[t] = "unhooked"
    /\ HOOK_ACTIVE' = FALSE
    /\ hookPc' = [hookPc EXCEPT ![t] = "done"]
    /\ UNCHANGED <<KEYBOARD_HOOK, osHooks, unhookCalls>>
    /\ HookThreadFrame

HookThreadStep ==
    \E t \in 1..MaxInstallCalls :
        \/ HookThreadInstall(t)
        \/ HookThreadStore(t)
        \/ HookThreadActivate(t)
        \/ HookThreadQuit(t)
        \/ HookThreadUnhook(t)
        \/ HookThreadDeactivate(t)

Running == pc = "running" /\ exitCause = "none" /\ nEvents < MaxEvents

\* the window "main" emits CloseRequested, Focused(true) or Focused(false);
\* a close request that is not prevented closes the window, and the process
\* exits when its last window is gone
WindowEvent(event) ==
    /\ Running
    /\ "main" \in windows
    /\ LET r == on_window_event("main", event)
           closes == event = "CloseRequested" /\ ~r.prevent_close
       IN  /\ last' = [kind |-> "window", event |-> event,
                       prevent_close |-> r.prevent_close,
                       set_focus |-> r.set_focus]
           /\ refocusRequests' = refocusRequests \o r.set_focus
           /\ IF closes
              THEN pc' = "exited" /\ ExitProcess("window_closed", 0)
              ELSE UNCHANGED <<pc, procVars>>
    /\ closeRequests' = closeRequests + (IF event = "CloseRequested" THEN 1 ELSE 0)
    /\ focusLost' = focusLost + (IF event = "FocusedFalse" THEN 1 ELSE 0)
    /\ nEvents' = nEvents + 1
    /\ UNCHANGED <<policyVars, base_url, enable_emergency_exit,
                   hotkeyRegistered, navTarget, scriptAttached, urlHandler,
                   hookStatics, pageVars, navCount, fnVars>>

\* the ways the key-downs of the chord can reach the hook callback: the
\* Shift, Ctrl and Alt keys (generic, left and right codes) and Q, as
\* WM_KEYDOWN or WM_SYSKEYDOWN, with any flags and any Ctrl state
ChordKeyDowns ==
    [vkCode : {16, 17, 18, 160, 161, 162, 163, 164, 165, 81},
     wparam : {WM_KEYDOWN, WM_SYSKEYDOWN},
     flags : {0, 1, 32, 33},
     ctrlState : {0, 1, 32768, 32769}]

\* an installed hook swallows a key-down of the chord
ChordBlocked ==
    /\ osHooks # {}
    /\ \E k \in ChordKeyDowns :
           keyboard_hook_proc(0, k.wparam, 4096,
                              [vkCode |-> k.vkCode, flags |-> k.flags],
                              k.ctrlState, KEYBOARD_HOOK, 0).next = <<>>

\* the user presses or releases Ctrl+Alt+Shift+Q; the keys pass the
\* keyboard hook first, then the registered shortcut delivers the
\* transition to the on_shortcut closure
ShortcutChord(state) ==
    /\ Running
    /\ LET delivered == hotkeyRegistered /\ ~ChordBlocked
           exits == delivered /\ shortcut_handler(state)
       IN  /\ last' = [kind |-> "shortcut", state |-> state,
                       hooked |-> osHooks # {},
                       delivered |-> delivered, exit |-> exits]
           /\ IF exits
              THEN pc' = "exited" /\ ExitProcess("escape_valve", 0)
              ELSE UNCHANGED <<pc, procVars>>
    /\ nEvents' = nEvents + 1
    /\ UNCHANGED <<policyVars, base_url, enable_emergency_exit,
                   hotkeyRegistered, navTarget, scriptAttached, urlHandler,
                   hookStatics, pageVars, counterVars, fnVars>>

\* the page invokes close_app: app.exit(0)
InvokeCloseApp ==
    /\ Running
    /\ last' = [kind |-> "command", cmd |-> "close_app"]
    /\ pc' = "exited"
    /\ ExitProcess("close_app", 0)
    /\ nEvents' = nEvents + 1
    /\ UNCHANGED <<policyVars, base_url, enable_emergency_exit,
                   hotkeyRegistered, navTarget, scriptAttached, urlHandler,
                   hookStatics, pageVars, counterVars, fnVars>>

\* the page invokes close_lockdown: std::process::exit(0)
InvokeCloseLockdown ==
    /\ Running
    /\ last' = [kind |-> "command", cmd |-> "close_lockdown"]
    /\ pc' = "exited"
    /\ ExitProcess("close_lockdown", 0)
    /\ nEvents' = nEvents + 1
    /\ UNCHANGED <<policyVars, base_url, enable_emergency_exit,
                   hotkeyRegistered, navTarget, scriptAttached, urlHandler,
                   hookStatics, pageVars, counterVars, fnVars>>

\* the page invokes check_multiple_monitors or get_monitor_count while the
\* OS enumerates some number of displays
InvokeMonitorQuery(cmd) ==
    /\ Running
    /\ \E displays \in 0..MaxMonitors :
         last' = [kind |-> "command", cmd |-> cmd, displays |-> displays,
                  ret |-> IF cmd = "get_monitor_count"
                          THEN get_monitor_count(build.windows_os, displays)
                          ELSE check_multiple_monitors(build.windows_os, displays)]
    /\ nEvents' = nEvents + 1
    /\ UNCHANGED <<pc, policyVars, base_url, enable_emergency_exit,
                   hotkeyRegistered, windows, navTarget, scriptAttached,
                   urlHandler, hookVars, pageVars, counterVars, exitCause,
                   exitCode, fnVars>>

\* the deep-link plugin delivers an OpenUrlEvent to the on_open_url closure;
\* the script the closure evaluates navigates the window it runs in, which
\* then holds a new document
OpenUrl(urls) ==
    /\ Running
    /\ urlHandler
    /\ LET script == on_open_url(urls, windows, base_url)
           nav == IF script.some THEN JsEval(script.val) ELSE None
       IN  /\ last' = [kind |-> "open_url", urls |-> urls, script |-> script,
                       nav |-> nav]
           /\ navTarget' = IF nav.some THEN nav.val ELSE navTarget
           /\ navCount' = navCount + (IF nav.some THEN 1 ELSE 0)
           /\ pageContent' = IF nav.some THEN FALSE ELSE pageContent
           /\ pageListeners' = IF nav.some THEN "none" ELSE pageListeners
    /\ nEvents' = nEvents + 1
    /\ UNCHANGED <<pc, policyVars, base_url, enable_emergency_exit,
                   hotkeyRegistered, windows, scriptAttached, urlHandler,
                   hookVars, closeRequests, focusLost, refocusRequests,
                   exitCause, exitCode, fnVars>>

Next ==
    \/ MainLoadConfig
    \/ MainInstallHook
    \/ SetupShortcut
    \/ SetupWindow
    \/ SetupScript
    \/ SetupDeepLink
    \/ PageLoad
    \/ HookThreadStep
    \/ \E event \in {"CloseRequested", "FocusedTrue", "FocusedFalse"} :
           WindowEvent(event)
    \/ \E state \in {"Pressed", "Released"} : ShortcutChord(state)
    \/ InvokeCloseApp
    \/ InvokeCloseLockdown
    \/ \E cmd \in {"check_multiple_monitors", "get_monitor_count"} :
           InvokeMonitorQuery(cmd)
    \/ \E urls \in Deliveries : OpenUrl(urls)

Spec == Init /\ [][Next]_vars

(***************************************************************************)
(* SpecInstall: install_keyboard_hook called up to MaxInstallCalls times,  *)
(* interleaved with the steps of the hook threads the calls spawn          *)
(***************************************************************************)
InitInstall ==
    /\ AppIdle
    /\ arg = [fn |-> "install_keyboard_hook"]
    /\ res = NoRes

\* some thread of the process calls install_keyboard_hook()
CallInstallKeyboardHook ==
    /\ installCalls < MaxInstallCalls
    /\ install_keyboard_hook
    /\ UNCHANGED <<mainVars, policyVars, windows, exitCause, exitCode,
                   HOOK_ACTIVE, KEYBOARD_HOOK, unhookCalls, osHooks, pageVars,
                   nEvents, counterVars, last, fnVars>>

NextInstall == CallInstallKeyboardHook \/ HookThreadStep

SpecInstall == InitInstall /\ [][NextInstall]_vars


(***************************************************************************)
(* Claims about the running process (Spec)                                 *)
(***************************************************************************)
\* the step delivers one more CloseRequested event
CloseRequestStep == closeRequests' = closeRequests + 1

\* C3: a close request is always vetoed: after each CloseRequested event,
\* however many came before and whatever focus events came between, the
\* window is still open and the process still running.
C3_CloseAlwaysVetoed ==
    [][CloseRequestStep =>
          /\ last'.prevent_close
          /\ "main" \in windows'
          /\ pc' = "running"
          /\ exitCause' = "none"]_vars

\* C3 witness: two close requests and a focus loss later the window is open
C3_Witness ==
    /\ closeRequests = 2 /\ focusLost = 1
    /\ last.kind = "window" /\ last.event = "CloseRequested"
    /\ windows = {"main"} /\ pc = "running" /\ exitCause = "none"

\* C4: every Focused(false) event makes exactly one set_focus() call on the
\* window that lost focus, so k such events make k calls; Focused(true) and
\* CloseRequested events make none.
C4_RefocusPerFocusLost ==
    /\ [](Len(refocusRequests) = focusLost)
    /\ [][IF focusLost' = focusLost + 1
          THEN /\ Len(refocusRequests') = Len(refocusRequests) + 1
               /\ refocusRequests'[Len(refocusRequests')] = "main"
               /\ last'.set_focus = <<"main">>
          ELSE refocusRequests' = refocusRequests]_vars

\* C4 witness: three focus losses in a row, three refocus requests
C4_Witness ==
    /\ focusLost = 3
    /\ refocusRequests = <<"main", "main", "main">>
    /\ last.kind = "window" /\ last.event = "FocusedFalse"

\* the merged flag: configuration flag OR non-production build
MergedFlag == config.enable_emergency_exit \/ build.debug_assertions

\* the step is a press or release of Ctrl+Alt+Shift+Q
ChordStep == last'.kind = "shortcut" /\ nEvents' = nEvents + 1

TerminationStep == pc = "running" /\ pc' # "running"

ByEscapeValve ==
    /\ last'.kind = "shortcut" /\ last'.state = "Pressed"
    /\ MergedFlag
    /\ exitCause' = "escape_valve"

ByExitCommand ==
    /\ last'.kind = "command"
    /\ last'.cmd \in {"close_app", "close_lockdown"}
    /\ exitCause' = last'.cmd

\* C6 as stated: whenever the running process terminates, the enabled
\* Escape Valve chord caused it, and no other event of the user or the page.
C6_OnlyEscapeValveTerminates ==
    [][TerminationStep => ByEscapeValve]_vars

\* C6 amended: whenever the running process terminates, either the key-down
\* of the enabled Escape Valve chord caused it or the page invoked close_app
\* or close_lockdown; no window event, deep link, monitor query or chord
\* release terminates it.
C6_TerminationCauses ==
    [][TerminationStep => (ByEscapeValve \/ ByExitCommand)]_vars

\* C6 witness: the page has ended the process with close_lockdown while the
\* Escape Valve was disabled
C6_Witness ==
    /\ ~MergedFlag
    /\ pc = "exited" /\ exitCause = "close_lockdown" /\ exitCode = 0
    /\ last.kind = "command" /\ last.cmd = "close_lockdown"

\* the step is a runtime deep-link delivery
DeliveryStep == last'.kind = "open_url" /\ nEvents' = nEvents + 1

\* C9: a runtime delivery with at least one URI navigates the existing
\* "main" window once, to to_local(first URI, base); a delivery without URI
\* or without "main" window navigates nothing; no delivery changes the set
\* of windows; at cold start the first URI of get_current(), if any, gives
\* the initial target and the base origin does otherwise.
C9_DeepLinkNavigation ==
    /\ [][DeliveryStep =>
            /\ windows' = windows
            /\ IF last'.urls # <<>> /\ "main" \in windows
               THEN /\ navCount' = navCount + 1
                    /\ navTarget' = to_local(last'.urls[1], base_url)
               ELSE navCount' = navCount /\ navTarget' = navTarget]_vars
    /\ [][(pc = "setup_window" /\ pc' = "setup_script") =>
            /\ windows' = {"main"}
            /\ navTarget' = IF current.some /\ Len(current.val) >= 1
                            THEN UrlParse(to_local(current.val[1], base_url))
                            ELSE UrlParse(base_url)]_vars


(***************************************************************************)
(* Claims about startup and the commands (Spec)                            *)
(***************************************************************************)
\* the process is in the event loop
InEventLoop == pc = "running"

\* no thread of the process is left and the OS holds no hook of it
ProcessGone ==
    /\ windows = {}
    /\ osHooks = {}
    /\ \A t \in 1..Len(hookPc) : ~ThreadAlive(hookPc[t])

\* C11: an invalid configuration or a failed build of the host window aborts
\* the process, which then never reaches the event loop: with an invalid
\* configuration the process is at its first step or aborted, an aborted
\* process has exited by panic with no window, hook or thread left and stays
\* aborted, and a process in the event loop has a valid configuration and
\* its host window, so it never runs with a hook or hotkey and no window.
C11_NoPartialRunning ==
    /\ [](/\ ~config.valid => pc \in {"load_config", "aborted"}
          /\ pc = "aborted" => exitCause = "panic" /\ ProcessGone
          /\ InEventLoop => config.valid /\ "main" \in windows
          /\ (InEventLoop /\ (osHooks # {} \/ hotkeyRegistered))
                 => "main" \in windows)
    /\ [][pc = "aborted" => pc' = "aborted"]_vars
    /\ [][(pc = "setup_window" /\ pc' # pc /\ windows' = {})
              => pc' = "aborted"]_vars

\* the build of the window failed after the hook thread had installed its
\* hook and the hotkey had been registered
C11_Witness ==
    /\ pc = "aborted"
    /\ config.valid
    /\ hotkeyRegistered
    /\ KEYBOARD_HOOK.some
    /\ hookPc = <<"killed">>

\* C12: get_monitor_count returns the number of displays the OS enumerates
\* on Windows and 1 elsewhere, never a negative number, and the query
\* changes nothing but the record of the last command.
C12_MonitorCensus ==
    [][(nEvents' = nEvents + 1 /\ last'.kind = "command"
            /\ last'.cmd = "get_monitor_count")
        => /\ last'.ret = (IF build.windows_os THEN last'.displays ELSE 1)
           /\ last'.ret >= 0
           /\ UNCHANGED <<mainVars, policyVars, procVars, hookStatics,
                          pageVars, counterVars, fnVars>>]_vars

\* two displays counted on Windows
C12_Witness ==
    /\ last.kind = "command"
    /\ last.cmd = "get_monitor_count"
    /\ build.windows_os
    /\ last.displays = 2
    /\ last.ret = 2

(***************************************************************************)
(* Claims about the hook thread (SpecInstall, Spec)                        *)
(***************************************************************************)
Threads == 1..Len(hookPc)

\* the number of times handle h was passed to UnhookWindowsHookEx
UnhookCount(h) == Cardinality({i \in 1..Len(unhookCalls) : unhookCalls[i] = h})

\* thread t is in its message loop, or GetMessageW has just returned false
\* and the thread is about to release the hook
InLoop(t) == hookPc[t] \in {"loop", "cleanup"}

\* C13: under every interleaving of calls of install_keyboard_hook with the
\* steps of the hook threads, at most one keyboard hook is installed at a
\* time, the handle in KEYBOARD_HOOK is the one of the only thread that
\* serves a hook, and each installed hook is uninstalled exactly once: never
\* twice, and once when its thread has finished.
C13_ExactlyOneHook ==
    /\ Cardinality(osHooks) <= 1
    /\ \A t \in Threads :
           (hookPc[t] \in {"stored", "loop", "cleanup"})
               => KEYBOARD_HOOK = Some(Handle(t))
    /\ \A t \in Threads : UnhookCount(Handle(t)) <= 1
    /\ \A t \in Threads : hookPc[t] = "done" => UnhookCount(Handle(t)) = 1

\* C14: a hook thread that has left its message loop and gone past the
\* release, or has finished, no longer has its hook installed, and has
\* passed its handle to UnhookWindowsHookEx.
C14_ReleasedOnExit ==
    \A t \in Threads :
        hookPc[t] \in {"unhooked", "done"}
            => Handle(t) \notin osHooks /\ UnhookCount(Handle(t)) = 1

\* a thread has installed its hook, run the loop, released the hook and
\* finished
C14_Witness ==
    \E t \in Threads :
        /\ hookPc[t] = "done"
        /\ Handle(t) \notin osHooks
        /\ unhookCalls # <<>>

\* C19 as stated: HOOK_ACTIVE is true only if a hook is installed and its
\* thread is in the message loop, and a call of install_keyboard_hook made
\* while it is true spawns no thread.
C19_ActiveOnlyInLoop ==
    /\ [](HOOK_ACTIVE =>
              \E t \in Threads : InLoop(t) /\ Handle(t) \in osHooks)
    /\ [][(installCalls' = installCalls + 1 /\ HOOK_ACTIVE)
              => hookPc' = hookPc]_vars

\* C19 amended: HOOK_ACTIVE is true only while some hook thread is in its
\* message loop with its hook installed, or has left the loop and not yet
\* stored false; the thread stores false right after the release and before
\* it ends, and a call made while the flag is true spawns no thread.
C19_ActiveUntilCleared ==
    /\ [](HOOK_ACTIVE =>
              \E t \in Threads :
                  \/ InLoop(t) /\ Handle(t) \in osHooks
                  \/ hookPc[t] = "unhooked")
    /\ [][\A t \in Threads :
              (hookPc[t] = "unhooked" /\ hookPc'[t] = "done")
                  => ~HOOK_ACTIVE']_vars
    /\ [][(installCalls' = installCalls + 1 /\ HOOK_ACTIVE)
              => hookPc' = hookPc]_vars

\* the flag is false again after a thread has released its hook and ended,
\* and a call made while the flag was true has spawned nothing
C19_Witness ==
    /\ ~HOOK_ACTIVE
    /\ installCalls = 2
    /\ hookPc = <<"done">>
    /\ osHooks = {}

\* C15: a hook thread whose installation failed ends without the message
\* loop and stays ended, HOOK_ACTIVE stays false and no hook is installed,
\* install_keyboard_hook is called once and no further thread is spawned,
\* and the failure leaves the main thread alone, which goes on through its
\* setup steps.
C15_InstallFailurePermanent ==
    /\ [](/\ installCalls <= 1 /\ Len(hookPc) <= 1
          /\ hookPc = <<"failed">> =>
                 /\ ~HOOK_ACTIVE /\ ~KEYBOARD_HOOK.some /\ osHooks = {}
                 /\ unhookCalls = <<>>
          /\ (hookPc = <<"failed">> /\ exitCause = "none") =>
                 /\ pc = "setup_shortcut" => ENABLED SetupShortcut
                 /\ pc = "setup_window" => ENABLED SetupWindow
                 /\ pc = "setup_script" => ENABLED SetupScript
                 /\ pc = "setup_deeplink" => ENABLED SetupDeepLink)
    /\ [][hookPc = <<"failed">> => hookPc' = hookPc]_vars
    /\ [][(hookPc = <<"spawned">> /\ hookPc' = <<"failed">>)
              => UNCHANGED <<mainVars, windows, exitCause, exitCode>>]_vars

\* the installation failed and the process runs with its window, the
\* script evaluated, the deep-link handler subscribed and a close request
\* vetoed
C15_Witness ==
    /\ pc = "running"
    /\ hookPc = <<"failed">>
    /\ ~HOOK_ACTIVE
    /\ "main" \in windows
    /\ scriptAttached
    /\ urlHandler
    /\ last.kind = "window" /\ last.event = "CloseRequested"
    /\ last.prevent_close

(***************************************************************************)
(* Claims about the page, the navigation targets and the chord (Spec)      *)
(***************************************************************************)
\* C16: the script is evaluated once, and whenever the content of the
\* document in the window has run, for the entry page and for every page a
\* deep link has navigated to, the listeners of init_script were attached
\* to that document before its content ran.
C16_ScriptBeforeContent ==
    /\ [](pageContent => pageListeners = "first")
    /\ [][scriptAttached => scriptAttached']_vars

\* the base origin main selects from the build and the configuration
SelectedBase ==
    IF build.debug_assertions THEN config.base_url ELSE config.production_url

StartsWith(s, prefix) ==
    Len(s) >= Len(prefix) /\ SubSeq(s, 1, Len(prefix)) = prefix

\* C17: every URL the window is sent to, at cold start and by every deep
\* link delivered later, begins with the selected base origin without its
\* trailing slashes, and the base origin does not change after startup.
C17_TargetsOnBaseOrigin ==
    /\ [](navTarget # <<>> =>
              StartsWith(navTarget, trim_end_matches(SelectedBase, "/")))
    /\ [](pc \notin {"load_config", "aborted"} => base_url = SelectedBase)
    /\ [][pc # "load_config" => base_url' = base_url]_vars

\* C18: keyboard_hook_proc forwards every key-down of the chord (Shift,
\* Ctrl, Alt and Q, whatever the flags and the Ctrl state) to the next hook
\* and returns its answer, so a press of the chord with the hook installed
\* and the shortcut registered is delivered to the closure and the process
\* exits with code 0.
C18_ChordPassesHook ==
    /\ [](\A k \in ChordKeyDowns :
              LET r == keyboard_hook_proc(
                           0, k.wparam, 4096,
                           [vkCode |-> k.vkCode, flags |-> k.flags],
                           k.ctrlState, KEYBOARD_HOOK, 5)
              IN  /\ r.ret = 5
                  /\ Len(r.next) = 1
                  /\ r.next[1].wparam = k.wparam
                  /\ r.next[1].lparam = 4096)
    /\ [][(Running /\ nEvents' = nEvents + 1 /\ last'.kind = "shortcut"
               /\ last'.state = "Pressed" /\ hotkeyRegistered
               /\ osHooks # {})
              => /\ last'.delivered
                 /\ pc' = "exited"
                 /\ exitCause' = "escape_valve"
                 /\ exitCode' = 0]_vars

\* the chord was pressed while the hook thread was in its message loop and
\* the process has exited through the Escape Valve
C18_Witness ==
    /\ exitCause = "escape_valve"
    /\ last.kind = "shortcut"
    /\ last.hooked
    /\ last.delivered
    /\ HOOK_ACTIVE
    /\ KEYBOARD_HOOK.some

(***************************************************************************)
(* SpecLocal: to_local applied to every URI and base within the bounds     *)
(***************************************************************************)
\* What Url can return: a host has no '/', a path that follows an authority
\* is empty or starts with '/', a URI without authority has an opaque path.
Hosts == {None} \cup {Some(h) : h \in SeqsUpTo({"h"}, 1)}
Paths == SeqsUpTo({"p", "/"}, MaxPath)
Queries == {None} \cup {Some(q) : q \in SeqsUpTo({"q"}, 1)}
Bases == SeqsUpTo({"b", "/"}, MaxBase)

Links ==
    {l \in [host : Hosts, path : Paths, query : Queries] :
        l.host.some => (l.path = <<>> \/ l.path[1] = "/")}

InitLocal ==
    /\ AppIdle
    /\ arg \in [fn : {"to_local"}, link : Links, base : Bases]
    /\ res = NoRes

\* one call of to_local, and the same call with one more '/' on the base
CallToLocal ==
    /\ arg.fn = "to_local"
    /\ ~res.done
    /\ res' = [done |-> TRUE,
               out |-> to_local(arg.link, arg.base),
               outSlash |-> to_local(arg.link, arg.base \o <<"/">>)]
    /\ UNCHANGED <<arg, appVars>>

NextLocal == CallToLocal

SpecLocal == InitLocal /\ [][NextLocal]_vars

(***************************************************************************)
(* Claims about to_local (SpecLocal)                                       *)
(***************************************************************************)
\* the number of leading '/' of s
LeadingSlashes(s) ==
    CHOOSE k \in 0..Len(s) :
        /\ \A i \in 1..k : s[i] = "/"
        /\ k = Len(s) \/ s[k + 1] # "/"

StripLeadingSlashes(s) == SubSeq(s, LeadingSlashes(s) + 1, Len(s))

HostOf(link) == IF link.host.some THEN link.host.val ELSE <<>>

NoTrailingSlash(b) == b = <<>> \/ b[Len(b)] # "/"

\* position j of out holds a separator that is not next to another '/'
CleanJoin(out, j) ==
    /\ j \in 1..Len(out)
    /\ out[j] = "/"
    /\ j > 1 => out[j - 1] # "/"
    /\ j < Len(out) /\ out[j + 1] # "/"

\* C7: for a base B without trailing slash, to_local returns B, then "/H" if
\* the authority H is non-empty, then "/P" (P with its leading slashes
\* stripped) if that is non-empty, then "?Q" verbatim if a query is present,
\* in this order and with no double slash at a join; with empty authority,
\* empty path and no query it returns exactly B.
C7_LocalizeShape ==
    (res.done /\ arg.fn = "to_local" /\ NoTrailingSlash(arg.base)) =>
        LET B == arg.base
            H == HostOf(arg.link)
            P == StripLeadingSlashes(arg.link.path)
            segH == IF H # <<>> THEN <<"/">> \o H ELSE <<>>
            segP == IF P # <<>> THEN <<"/">> \o P ELSE <<>>
            segQ == IF arg.link.query.some
                    THEN <<"?">> \o arg.link.query.val ELSE <<>>
        IN  /\ res.out = B \o segH \o segP \o segQ
            /\ H # <<>> => CleanJoin(res.out, Len(B) + 1)
            /\ P # <<>> => CleanJoin(res.out, Len(B) + Len(segH) + 1)
            /\ (H = <<>> /\ arg.link.path = <<>> /\ ~arg.link.query.some)
                   => res.out = B

\* C7 witness: authority, a path with two leading slashes and a query, all
\* joined onto a base without trailing slash
C7_Witness ==
    /\ res.done /\ arg.fn = "to_local"
    /\ arg.base = <<"b">>
    /\ arg.link = [host |-> Some(<<"h">>), path |-> <<"/", "/", "p">>,
                   query |-> Some(<<"q">>)]
    /\ res.out = <<"b", "/", "h", "/", "p", "?", "q">>

\* C8: to_local(uri, B) = to_local(uri, B + "/") for every URI and base B
C8_TrailingSlashIdempotent ==
    (res.done /\ arg.fn = "to_local") => res.out = res.outSlash

\* C8 witness: a base that already ends in a slash gets one more
C8_Witness ==
    /\ res.done /\ arg.fn = "to_local"
    /\ arg.base = <<"b", "/">>
    /\ arg.link.host = Some(<<"h">>)
    /\ res.outSlash = res.out
    /\ res.out[Len(arg.base)] = "/" /\ res.out[Len(arg.base) + 1] = "h"

(***************************************************************************)
(* SpecHook: keyboard_hook_proc applied to every keyboard event            *)
(***************************************************************************)
\* WM_KEYDOWN, WM_KEYUP, WM_SYSKEYDOWN, WM_SYSKEYUP: the messages a
\* low-level keyboard hook receives
KeyMessages == {256, 257, 260, 261}

\* the listed keys, and Shift, Ctrl, Alt, A, Q, F5
KeyCodes == {VK_TAB, VK_ESCAPE, VK_LWIN, VK_RWIN, VK_SNAPSHOT, VK_F4, VK_F12,
             VK_C, VK_V, VK_P, 16, 17, 18, 65, 81, 116}

\* LLKHF_EXTENDED 0x01, LLKHF_ALTDOWN 0x20, LLKHF_UP 0x80
KeyFlags == {0, 1, 32, 33, 128, 160}

\* GetAsyncKeyState as u16: bit 15 is "down", bit 0 "pressed since last call"
AsyncStates == {0, 1, 32768, 32769}

HookCodes == {-1, 0, 3}

InitHook ==
    /\ AppIdle
    /\ arg \in [fn : {"keyboard_hook_proc"}, code : HookCodes,
                wparam : KeyMessages, lparam : {4096},
                kb : [vkCode : KeyCodes, flags : KeyFlags],
                ctrlState : AsyncStates, hook : {None, Some(7)},
                nextRet : {0, 1}]
    /\ res = NoRes

\* the OS calls the hook callback with one keyboard event
CallKeyboardHookProc ==
    /\ arg.fn = "keyboard_hook_proc"
    /\ ~res.done
    /\ LET r == keyboard_hook_proc(arg.code, arg.wparam, arg.lparam, arg.kb,
                                   arg.ctrlState, arg.hook, arg.nextRet)
       IN  res' = [done |-> TRUE, ret |-> r.ret, next |-> r.next]
    /\ UNCHANGED <<arg, appVars>>

NextHook == CallKeyboardHookProc

SpecHook == InitHook /\ [][NextHook]_vars

(***************************************************************************)
(* Claims about keyboard_hook_proc (SpecHook)                              *)
(***************************************************************************)
IsKeyDownMsg(w) == w \in {256, 260}
AltHeld(kb) == kb.flags \in {32, 33, 160}
CtrlHeld(st) == st >= 32768

\* the denylist as the specification lists it
OnDenylist(kb, ctrlState) ==
    \/ AltHeld(kb) /\ kb.vkCode \in {9, 27, 115}     \* Alt+Tab, Alt+Esc, Alt+F4
    \/ kb.vkCode \in {91, 92}                        \* either Windows key
    \/ kb.vkCode = 44                                \* PrintScreen
    \/ kb.vkCode = 123                               \* F12
    \/ CtrlHeld(ctrlState) /\ kb.vkCode \in {67, 86, 80}   \* Ctrl+C, V, P

MustSuppress ==
    arg.code >= 0 /\ IsKeyDownMsg(arg.wparam) /\ OnDenylist(arg.kb, arg.ctrlState)

\* C1: a key-down (WM_KEYDOWN or WM_SYSKEYDOWN) with code >= 0 that matches
\* the denylist is suppressed: the callback returns 1 and does not call the
\* next hook.
C1_DenylistSuppressed ==
    (res.done /\ arg.fn = "keyboard_hook_proc" /\ MustSuppress) =>
        (res.ret = 1 /\ res.next = <<>>)

\* C1 witness: the right Windows key goes down and is suppressed
C1_Witness ==
    /\ res.done /\ arg.fn = "keyboard_hook_proc"
    /\ arg.code = 0 /\ arg.wparam = 256 /\ arg.kb.vkCode = 92
    /\ arg.nextRet = 0
    /\ res.ret = 1 /\ res.next = <<>>

\* C2: an event that is not suppressed (a key-down off the denylist, any
\* key-up, any event with code < 0) is forwarded to the next hook exactly
\* once with code, wparam and lparam unchanged, whether or not KEYBOARD_HOOK
\* is set; no event is both suppressed and forwarded and none is dropped.
C2_OthersForwardedOnce ==
    (res.done /\ arg.fn = "keyboard_hook_proc") =>
        /\ ~MustSuppress =>
              /\ Len(res.next) = 1
              /\ res.next[1].code = arg.code
              /\ res.next[1].wparam = arg.wparam
              /\ res.next[1].lparam = arg.lparam
              /\ res.ret = arg.nextRet
        /\ Len(res.next) \in {0, 1}
        /\ Len(res.next) = 0 <=> MustSuppress
        /\ Len(res.next) = 0 => res.ret = 1

\* C2 witness: the key-up of Alt+Tab arrives while KEYBOARD_HOOK is None and
\* is forwarded
C2_Witness ==
    /\ res.done /\ arg.fn = "keyboard_hook_proc"
    /\ arg.code = 0 /\ arg.wparam = 261 /\ arg.kb = [vkCode |-> 9, flags |-> 160]
    /\ ~arg.hook.some
    /\ Len(res.next) = 1 /\ res.next[1].hook = 0

(***************************************************************************)
(* SpecScript: one DOM event dispatched to the listeners of init_script    *)
(***************************************************************************)
DomTypes == {"contextmenu", "keydown", "keyup", "selectstart", "dragstart",
             "click"}
DomCodes == {"F12", "F5", "KeyI", "KeyJ", "KeyU", "KeyS", "KeyP", "KeyA"}
DomTags == {"INPUT", "TEXTAREA", "DIV"}

\* a key event carries the pressed key and the modifier state; the other
\* events carry their target only
DomEvents ==
    {e \in [type : DomTypes, code : DomCodes \cup {"-"}, ctrlKey : BOOLEAN,
            shiftKey : BOOLEAN, capsLock : BOOLEAN, tagName : DomTags] :
        IF e.type \in {"keydown", "keyup"}
        THEN e.code # "-"
        ELSE e.code = "-" /\ ~e.ctrlKey /\ ~e.shiftKey /\ ~e.capsLock}

InitScript ==
    /\ AppIdle
    /\ arg \in [fn : {"init_script"}, ev : DomEvents]
    /\ res = NoRes

\* the webview dispatches the event to the document's listeners
DispatchDomEvent ==
    /\ arg.fn = "init_script"
    /\ ~res.done
    /\ LET e == [type |-> arg.ev.type,
                 key |-> DomKey(arg.ev.code, arg.ev.shiftKey, arg.ev.capsLock),
                 ctrlKey |-> arg.ev.ctrlKey, shiftKey |-> arg.ev.shiftKey,
                 tagName |-> arg.ev.tagName]
       IN  res' = [done |-> TRUE, key |-> e.key, prevented |-> init_script(e)]
    /\ UNCHANGED <<arg, appVars>>

NextScript == DispatchDomEvent

SpecScript == InitScript /\ [][NextScript]_vars

(***************************************************************************)
(* Claims about the content script (SpecScript)                            *)
(***************************************************************************)
\* the key-downs the policy lists: F12, Ctrl+Shift+I, Ctrl+Shift+J, Ctrl+U,
\* Ctrl+S, Ctrl+P
ListedKeyDown(ev) ==
    \/ ev.code = "F12"
    \/ ev.ctrlKey /\ ev.shiftKey /\ ev.code \in {"KeyI", "KeyJ"}
    \/ ev.ctrlKey /\ ~ev.shiftKey /\ ev.code \in {"KeyU", "KeyS", "KeyP"}

\* a key-down that contains none of the listed chords, with or without
\* further modifiers
UnlistedKeyDown(ev) ==
    /\ ev.code # "F12"
    /\ ~(ev.ctrlKey /\ ev.shiftKey /\ ev.code \in {"KeyI", "KeyJ"})
    /\ ~(ev.ctrlKey /\ ev.code \in {"KeyU", "KeyS", "KeyP"})

\* C10: the script prevents every context-menu and drag-start event, every
\* key-down for F12, Ctrl+Shift+I, Ctrl+Shift+J, Ctrl+U, Ctrl+S and Ctrl+P,
\* and every selection start whose target is not INPUT or TEXTAREA; it
\* prevents no other key-down.
C10_ScriptPolicy ==
    (res.done /\ arg.fn = "init_script") =>
        LET ev == arg.ev
        IN  /\ ev.type \in {"contextmenu", "dragstart"} => res.prevented
            /\ ev.type = "selectstart" =>
                   (res.prevented <=> ev.tagName \notin {"INPUT", "TEXTAREA"})
            /\ (ev.type = "keydown" /\ ListedKeyDown(ev)) => res.prevented
            /\ (ev.type = "keydown" /\ UnlistedKeyDown(ev)) => ~res.prevented

====
